---- MODULE Spec2Model ----
(***************************************************************************)
(* Model of the job-postings analysis scripts (scripts 1 to 8).            *)
(* Every script is one linear run: load the dataset, normalise the         *)
(* job_skills column, then filter / explode / group / rank and hand a      *)
(* small table to the renderer.  A run is one behaviour: Init picks the    *)
(* script that is run and the dataset it loads, the actions are the        *)
(* statements of that script in order.                                     *)
(*                                                                         *)
(* Encoding.  An optional value (pandas NaN / None) is a set with at most  *)
(* one element: NaN is {} and a present value v is {v}.  A dataframe is a  *)
(* sequence of records.  A float that is a quotient (a percentage) is the  *)
(* pair [num, den], compared by cross multiplication.  Salaries are drawn  *)
(* from even numbers, so the mean of the two middle values is exact.       *)
(* A raw job_skills string is the sequence of its tokens.                  *)
(***************************************************************************)
EXTENDS Integers, Sequences, FiniteSets, TLC

VARIABLES
    script,         \* the script that is run
    pc,             \* the statement the run has reached
    df,             \* the loaded dataframe
    df_da,          \* the filtered postings (df_da; top_6 in script 6)
    df_explode,     \* the exploded postings (df_skill, df_da_explode)
    df_group,       \* the grouped table (df_skill_group, df_da_pivot, df_da_group)
    job_titles,     \* the top job titles (scripts 4 and 6)
    df_percent,     \* the table with percentages
    df_plot,        \* the table handed to the renderer
    df_da_skills,   \* script 7: the second table handed to the renderer
    df_technology,  \* script 8: the (technology, skills) frame
    again           \* rank-and-truncate applied to the rendered table

vars == <<script, pc, df, df_da, df_explode, df_group, job_titles, df_percent,
          df_plot, df_da_skills, df_technology, again>>

\* Number of freely chosen postings of the loaded dataset.
NPosts == 3

NaN == {}

Some(x) == {x}

Val(o) == CHOOSE x \in o : TRUE

Range(s) == {s[i] : i \in DOMAIN s}

Min(a, b) == IF a < b THEN a ELSE b

\* The sequence with the elements of f, built once.
AsSeq(f) == SubSeq(f, 1, Len(f))

\* Column orders used by groupby (keys come out sorted).
SkillOrder == <<"aws", "azure", "excel", "go", "java", "looker", "python",
                "r", "sas", "sql", "tableau">>

RoleOrder == <<"Business Analyst", "Cloud Engineer", "Data Analyst",
               "Data Engineer", "Data Scientist", "Machine Learning Engineer",
               "Senior Data Analyst", "Software Engineer">>

MonthOrder == <<1, 2, 3, 4, 5, 6, 7, 8, 9, 10, 11, 12>>

IndexIn(order, x) == CHOOSE i \in DOMAIN order : order[i] = x

DA == "Data Analyst"

DE == "Data Engineer"

(***************************************************************************)
(* Raw job_skills strings, as token sequences.                             *)
(***************************************************************************)
StrEmpty == <<"[", "]">>

StrSql == <<"[", "sql", "]">>

StrSqlSql == <<"[", "sql", ",", "sql", "]">>

StrSqlPython == <<"[", "sql", ",", "python", "]">>

\* A posting that lists every skill of SkillOrder once.
StrAll == <<"[", "sql", ",", "python", ",", "excel", ",", "tableau", ",",
            "r", ",", "sas", ",", "aws", ",", "azure", ",", "go", ",",
            "java", ",", "looker", "]">>

StrAws == <<"[", "aws", "]">>

StrExcel == <<"[", "excel", "]">>

StrMalformed == <<"[", "sql">>

Punct == {"[", "]", ","}

\* ast.literal_eval on a list literal: the items between the brackets,
\* separated by commas (a trailing comma is allowed); anything else raises.
ItemsOk(t) ==
    /\ Len(t) >= 2
    /\ t[1] = "["
    /\ t[Len(t)] = "]"
    /\ \A i \in 2..(Len(t) - 1) :
          IF i % 2 = 0 THEN t[i] \notin Punct ELSE t[i] = ","

literal_eval(t) ==
    IF ItemsOk(t)
    THEN [ok |-> TRUE,
          val |-> AsSeq([k \in 1..((Len(t) - 1) \div 2) |-> t[2 * k]])]
    ELSE [ok |-> FALSE, val |-> <<>>]

\* lambda x: ast.literal_eval(x) if pd.notna(x) else x
ParseRaises(d) ==
    \E i \in DOMAIN d :
        d[i].job_skills # NaN /\ ~literal_eval(Val(d[i].job_skills)).ok

ParseSkills(d) ==
    AsSeq([i \in DOMAIN d |->
        IF d[i].job_skills = NaN
        THEN d[i]
        ELSE [d[i] EXCEPT
                !.job_skills = Some(literal_eval(Val(d[i].job_skills)).val)]])

(***************************************************************************)
(* Dataframe helpers.                                                      *)
(***************************************************************************)
\* Mutant of head: one row too many.
head_one_more(s, n) == SubSeq(s, 1, Min(n + 1, Len(s)))

head(s, n) == SubSeq(s, 1, Min(n, Len(s)))

\* DataFrame.explode("job_skills"): one row per list element, in order; a
\* NaN or an empty list gives one row whose job_skills is NaN.
ExplodeRow(p) ==
    IF p.job_skills = NaN \/ Val(p.job_skills) = <<>>
    THEN <<[p EXCEPT !.job_skills = NaN]>>
    ELSE AsSeq([k \in 1..Len(Val(p.job_skills)) |->
                  [p EXCEPT !.job_skills = Some(Val(p.job_skills)[k])]])

RECURSIVE explode(_)
explode(d) ==
    IF d = <<>> THEN <<>>
    ELSE ExplodeRow(Head(d)) \o explode(Tail(d))

\* sort_values(by=key, ascending=False) with the default kind="quicksort":
\* descending by key, NaN keys last in their input order.  The order of
\* equal keys is not specified by the default kind; the model admits the
\* input order ("stable") and the reverse of it ("reversed").
TieOrders == {"stable", "reversed"}

Before(rank, tie, j, i) ==
    IF rank[i] = NaN
    THEN rank[j] # NaN \/ j < i
    ELSE /\ rank[j] # NaN
         /\ \/ Val(rank[j]) > Val(rank[i])
            \/ /\ Val(rank[j]) = Val(rank[i])
               /\ IF tie = "stable" THEN j < i ELSE j > i

sort_values(s, rank, tie) ==
    LET r   == AsSeq(rank)
        pos == AsSeq([i \in DOMAIN s |->
                  1 + Cardinality({j \in DOMAIN s : Before(r, tie, j, i)})])
    IN  AsSeq([k \in DOMAIN s |-> s[CHOOSE i \in DOMAIN s : pos[i] = k]])

\* The values of a column, in order of first appearance (value_counts before
\* it sorts).
RECURSIVE unique(_)
unique(s) ==
    IF s = <<>> THEN <<>>
    ELSE LET u == unique(SubSeq(s, 1, Len(s) - 1))
         IN  IF s[Len(s)] \in Range(u) THEN u ELSE Append(u, s[Len(s)])

Column(d, c) == AsSeq([i \in DOMAIN d |-> d[i][c]])

\* Series.value_counts() of a column of optional values: one row per present
\* value with the number of rows carrying it, most frequent first.
value_counts(col, tie) ==
    LET present == SelectSeq(col, LAMBDA v : v # NaN)
        keys    == unique(present)
        rows    == AsSeq([k \in DOMAIN keys |->
                      [key   |-> Val(keys[k]),
                       count |-> Cardinality({i \in DOMAIN col :
                                                 col[i] = keys[k]})]])
    IN  sort_values(rows, [k \in DOMAIN rows |-> Some(rows[k].count)], tie)

Titles(d) == AsSeq([i \in DOMAIN d |-> Some(d[i].job_title_short)])

(***************************************************************************)
(* The loaded dataset.  A posting carries the columns the scripts read.    *)
(***************************************************************************)
Posting(title, skills, salary, month, country, company, tech) ==
    [job_title_short  |-> title,
     job_skills       |-> skills,
     salary_year_avg  |-> salary,
     job_posted_date  |-> <<2023, month>>,
     job_country      |-> country,
     company_name     |-> company,
     job_type_skills  |-> tech]

\* A posting of which only the title and the skills string vary.
Skilled(title, skills) == Posting(title, skills, NaN, 1, NaN, NaN, NaN)

\* Script 4 reads job_title_short and job_skills.  Two further titles have a
\* posting each, so that more than three titles can be present.
Background4 ==
    <<Skilled("Data Scientist", Some(StrSql)),
      Skilled("Senior Data Analyst", Some(StrSqlPython))>>

Kinds4 ==
    {Skilled(DA, s) : s \in {NaN, Some(StrEmpty), Some(StrSql),
                             Some(StrSqlSql), Some(StrSqlPython),
                             Some(StrAll)}}
    \cup {Skilled(DE, Some(StrSql)), Skilled(DE, Some(StrMalformed))}

\* Script 5 reads job_title_short, job_posted_date and job_skills.
Dated(title, skills, month) ==
    Posting(title, skills, NaN, month, NaN, NaN, NaN)

Kinds5 ==
    {Dated(DA, s, 1) : s \in {NaN, Some(StrSql), Some(StrSqlSql),
                               Some(StrSqlPython), Some(StrAll),
                               Some(StrMalformed)}}
    \cup {Dated(DA, Some(StrSql), 2), Dated(DE, Some(StrSql), 1)}

\* Script 6 reads job_title_short and salary_year_avg.  Seven titles have a
\* salaried posting each, so that more than six titles are present.
Salaried(title, skills, salary) ==
    Posting(title, skills, salary, 1, NaN, NaN, NaN)

Background6 ==
    AsSeq([k \in 1..7 |->
        Salaried(RoleOrder[IF k < 7 THEN k ELSE 8], Some(StrSql), Some(100))])

Kinds6 ==
    {Salaried(t, Some(StrSql), s) :
        t \in {"Business Analyst", DA},
        s \in {NaN, Some(100), Some(300)}}
    \cup {Salaried(DA, Some(StrMalformed), Some(100))}

\* Script 7 reads job_title_short, job_skills and salary_year_avg.
Kinds7 ==
    {Salaried(DA, Some(StrSql), s) : s \in {NaN, Some(100)}}
    \cup {Salaried(DA, Some(StrSqlPython), Some(100)),
          Salaried(DA, NaN, Some(100)),
          Salaried(DA, Some(StrSqlSql), Some(300)),
          Salaried(DA, Some(StrAll), Some(100)),
          Salaried(DE, Some(StrSql), Some(300)),
          Salaried(DA, Some(StrMalformed), Some(100))}

\* Script 8 reads job_title_short, job_skills, salary_year_avg and
\* job_type_skills (a dictionary string: its items, in order).  Eighteen
\* salaried Data Analyst postings that list excel stand for the bulk of the
\* dataset, so that a skill listed once falls on either side of 5 percent.
TechA == <<[technology |-> "cloud", skills |-> <<"aws", "azure">>]>>

TechB == <<[technology |-> "programming", skills |-> <<"sql", "python">>],
           [technology |-> "cloud", skills |-> <<"aws">>]>>

TechC == <<[technology |-> "analyst_tools", skills |-> <<"excel", "sql">>]>>

Typed(title, skills, salary, tech) ==
    Posting(title, skills, salary, 1, NaN, NaN, tech)

Background8 ==
    AsSeq([k \in 1..18 |-> Typed(DA, Some(StrExcel), Some(100), NaN)])

Kinds8 ==
    {Typed(DA, Some(StrAws), Some(100), Some(TechA)),
     Typed(DA, Some(StrSql), Some(100), Some(TechB)),
     Typed(DA, Some(StrSqlPython), Some(300), Some(TechC)),
     Typed(DA, Some(StrSqlSql), Some(100), NaN),
     Typed(DA, NaN, Some(100), Some(TechA)),
     Typed(DA, Some(StrSql), NaN, Some(TechB)),
     Typed(DE, Some(StrAws), Some(100), Some(TechC)),
     Typed(DA, Some(StrMalformed), Some(100), NaN)}

\* Scripts 1 and 3 read job_title_short and job_country / company_name.
\* Eleven Data Analyst postings of eleven countries and companies are
\* present, so that more than ten groups are.
Countries == <<"United States", "India", "United Kingdom", "France",
               "Germany", "Spain", "Singapore", "Sudan", "Netherlands",
               "Italy", "Canada">>

Companies == <<"Emprego", "Robert Half", "Insight Global", "Citi", "Dice",
               "UnitedHealth Group", "Get It Recruit", "Upwork", "Randstad",
               "Accenture", "Capital One">>

Located(title, skills, country, company) ==
    Posting(title, skills, NaN, 1, country, company, NaN)

Background1 ==
    AsSeq([k \in 1..11 |->
        Located(DA, Some(StrSql), Some(Countries[k]), Some(Companies[k]))])

Kinds1 ==
    {Located(DA, Some(StrSql), c, NaN) :
        c \in {NaN, Some(Countries[1]), Some(Countries[11])}}
    \cup {Located(DE, Some(StrSql), Some(Countries[11]), NaN),
          Located(DA, Some(StrMalformed), Some(Countries[11]), NaN)}

Kinds3 ==
    {Located(DA, Some(StrSql), NaN, c) :
        c \in {NaN, Some(Companies[1]), Some(Companies[11])}}
    \cup {Located(DE, Some(StrSql), NaN, Some(Companies[11])),
          Located(DA, Some(StrMalformed), NaN, Some(Companies[11]))}

\* Script 2 reads job_title_short and the three boolean flags
\* job_work_from_home, job_no_degree_mention and job_health_insurance.
Flagged(title, skills, home, degree, health) ==
    [job_title_short       |-> title,
     job_skills            |-> skills,
     salary_year_avg       |-> NaN,
     job_posted_date       |-> <<2023, 1>>,
     job_country           |-> NaN,
     company_name          |-> NaN,
     job_type_skills       |-> NaN,
     job_work_from_home    |-> home,
     job_no_degree_mention |-> degree,
     job_health_insurance  |-> health]

Kinds2 ==
    {Flagged(DA, Some(StrSql), FALSE, FALSE, FALSE),
     Flagged(DA, Some(StrSql), TRUE, TRUE, TRUE),
     Flagged(DA, Some(StrSql), FALSE, TRUE, FALSE),
     Flagged(DA, Some(StrSql), TRUE, FALSE, FALSE),
     Flagged(DE, Some(StrSql), TRUE, TRUE, TRUE),
     Flagged(DA, Some(StrMalformed), FALSE, FALSE, FALSE)}

Scripts == {"s1", "s2", "s3", "s4", "s5", "s6", "s7", "s8"}

Kinds(s) ==
    CASE s = "s1" -> Kinds1
      [] s = "s2" -> Kinds2
      [] s = "s3" -> Kinds3
      [] s = "s4" -> Kinds4
      [] s = "s5" -> Kinds5
      [] s = "s6" -> Kinds6
      [] s = "s7" -> Kinds7
      [] s = "s8" -> Kinds8

Background(s) ==
    CASE s \in {"s1", "s3"} -> Background1
      [] s = "s4" -> Background4
      [] s = "s6" -> Background6
      [] s = "s8" -> Background8
      [] OTHER    -> <<>>

Init ==
    /\ script \in Scripts
    /\ df \in {Background(script) \o free :
                  free \in [1..NPosts -> Kinds(script)]}
    /\ pc = "loaded"
    /\ df_da = <<>>
    /\ df_explode = <<>>
    /\ df_group = <<>>
    /\ job_titles = <<>>
    /\ df_percent = <<>>
    /\ df_plot = <<>>
    /\ df_da_skills = <<>>
    /\ df_technology = <<>>
    /\ again = <<>>

(***************************************************************************)
(* Normalisation, the same statement in every script: parse the            *)
(* job_skills strings.  literal_eval raising ends the run.                 *)
(***************************************************************************)
Normalize ==
    /\ pc = "loaded"
    /\ IF ParseRaises(df)
       THEN pc' = "aborted" /\ df' = df
       ELSE pc' = "normalized" /\ df' = ParseSkills(df)
    /\ UNCHANGED <<script, df_da, df_explode, df_group, job_titles,
                   df_percent, df_plot, df_da_skills, df_technology, again>>

(***************************************************************************)
(* Script 4: likelihood of skills in the top 3 job titles.                 *)
(***************************************************************************)
S4_Explode ==
    /\ script = "s4" /\ pc = "normalized"
    /\ df_explode' = explode(df)
    /\ pc' = "exploded"
    /\ UNCHANGED <<script, df, df_da, df_group, job_titles, df_percent,
                   df_plot, df_da_skills, df_technology, again>>

\* groupby(["job_skills", "job_title_short"]).size(): the (skill, title)
\* pairs that occur, in key order, each with its number of rows.
SkillTitlePairs ==
    AsSeq([n \in 1..(Len(SkillOrder) * Len(RoleOrder)) |->
        [job_skills      |-> SkillOrder[((n - 1) \div Len(RoleOrder)) + 1],
         job_title_short |-> RoleOrder[((n - 1) % Len(RoleOrder)) + 1]]])

SizeBySkillTitle(ex) ==
    LET n(k) == Cardinality({i \in DOMAIN ex :
                    /\ ex[i].job_skills = Some(k.job_skills)
                    /\ ex[i].job_title_short = k.job_title_short})
        keys == SelectSeq(SkillTitlePairs, LAMBDA k : n(k) > 0)
    IN  AsSeq([j \in DOMAIN keys |->
            [job_skills      |-> keys[j].job_skills,
             job_title_short |-> keys[j].job_title_short,
             skill_count     |-> n(keys[j])]])

S4_Group ==
    /\ script = "s4" /\ pc = "exploded"
    /\ \E tie \in TieOrders :
         LET g == SizeBySkillTitle(df_explode)
         IN  df_group' =
                sort_values(g, [j \in DOMAIN g |-> Some(g[j].skill_count)], tie)
    /\ pc' = "grouped"
    /\ UNCHANGED <<script, df, df_da, df_explode, job_titles, df_percent,
                   df_plot, df_da_skills, df_technology, again>>

\* Mutant of JobsTotal: the postings of the whole dataset.
JobsTotalGlobal(d, title) == Len(d)

\* df.job_title_short.value_counts(): jobs_total of a title.
JobsTotal(d, title) ==
    Cardinality({i \in DOMAIN d : d[i].job_title_short = title})

\* pd.merge(how="left", on="job_title_short") and skill_percent.
SkillsPercent(g, d) ==
    AsSeq([j \in DOMAIN g |->
        [job_skills      |-> g[j].job_skills,
         job_title_short |-> g[j].job_title_short,
         skill_count     |-> g[j].skill_count,
         jobs_total      |-> JobsTotal(d, g[j].job_title_short),
         skill_percent   |-> [num |-> 100 * g[j].skill_count,
                              den |-> JobsTotal(d, g[j].job_title_short)]]])

TopTitles == 3

TopSkillsPerTitle == 5

Keys(vc) == AsSeq([k \in DOMAIN vc |-> vc[k].key])

S4_Percent ==
    /\ script = "s4" /\ pc = "grouped"
    /\ \E tie \in TieOrders :
         job_titles' = head(Keys(value_counts(Titles(df), tie)), TopTitles)
    /\ df_percent' = SkillsPercent(df_group, df)
    /\ pc' = "percent"
    /\ UNCHANGED <<script, df, df_da, df_explode, df_group, df_plot,
                   df_da_skills, df_technology, again>>

\* df_skills_percent[df_skills_percent.job_title_short == job_title].head(5)
PlotOfTitle(t, title) ==
    head(SelectSeq(t, LAMBDA r : r.job_title_short = title), TopSkillsPerTitle)

S4_Plot ==
    /\ script = "s4" /\ pc = "percent"
    /\ df_plot' = AsSeq([i \in DOMAIN job_titles |->
                            PlotOfTitle(df_percent, job_titles[i])])
    /\ pc' = "done"
    /\ UNCHANGED <<script, df, df_da, df_explode, df_group, job_titles,
                   df_percent, df_da_skills, df_technology, again>>

(***************************************************************************)
(* Script 5: monthly trend of the top 5 skills of Data Analyst postings.   *)
(***************************************************************************)
IsDA(p) == p.job_title_short = DA

\* df_da_explode with its job_posted_month_no column (.dt.month).
WithMonth(ex) ==
    AsSeq([i \in DOMAIN ex |->
        [job_skills          |-> ex[i].job_skills,
         job_posted_month_no |-> ex[i].job_posted_date[2]]])

S5_Explode ==
    /\ script = "s5" /\ pc = "normalized"
    /\ df_da' = SelectSeq(df, IsDA)
    /\ df_explode' = WithMonth(explode(SelectSeq(df, IsDA)))
    /\ pc' = "exploded"
    /\ UNCHANGED <<script, df, df_group, job_titles, df_percent, df_plot,
                   df_da_skills, df_technology, again>>

\* pivot_table(index=month, columns=skill, aggfunc="size", fill_value=0):
\* the months and the skills that have a row with a skill, in key order.
PivotCell(ex, m, k) ==
    Cardinality({i \in DOMAIN ex : /\ ex[i].job_posted_month_no = m
                                   /\ ex[i].job_skills = Some(k)})

PivotIndex(ex) ==
    SelectSeq(MonthOrder, LAMBDA m : \E i \in DOMAIN ex :
                  ex[i].job_posted_month_no = m /\ ex[i].job_skills # NaN)

PivotColumns(ex) ==
    SelectSeq(SkillOrder, LAMBDA k : \E i \in DOMAIN ex :
                  ex[i].job_skills = Some(k))

\* The pivot with its columns sorted by the "total" row, largest first.
SortedPivot(ex, tie) ==
    LET idx  == PivotIndex(ex)
        cols == PivotColumns(ex)
        tot  == AsSeq([c \in DOMAIN cols |->
                  Some(Cardinality({i \in DOMAIN ex :
                                       ex[i].job_skills = Some(cols[c])}))])
        sc   == sort_values(cols, tot, tie)
    IN  [index   |-> idx,
         columns |-> sc,
         values  |-> AsSeq([r \in DOMAIN idx |->
                        AsSeq([c \in DOMAIN sc |->
                                  PivotCell(ex, idx[r], sc[c])])])]

S5_Pivot ==
    /\ script = "s5" /\ pc = "exploded"
    /\ \E tie \in TieOrders : df_group' = SortedPivot(df_explode, tie)
    /\ pc' = "grouped"
    /\ UNCHANGED <<script, df, df_da, df_explode, job_titles, df_percent,
                   df_plot, df_da_skills, df_technology, again>>

\* df_da_explode.groupby("job_posted_month_no").size()
MonthTotal(ex, m) ==
    Cardinality({i \in DOMAIN ex : ex[i].job_posted_month_no = m})

TotalIndex(ex) ==
    SelectSeq(MonthOrder, LAMBDA m : MonthTotal(ex, m) > 0)

\* df_da_pivot.div(df_da_total / 100, axis=0): the rows are aligned on the
\* month; a month of the totals that the pivot lacks gives a row of NaN.
PivotPercent(pv, ex) ==
    LET idx == TotalIndex(ex)
        row(m) == CHOOSE r \in DOMAIN pv.index : pv.index[r] = m
    IN  [index   |-> idx,
         columns |-> pv.columns,
         values  |-> AsSeq([r \in DOMAIN idx |->
                        AsSeq([c \in DOMAIN pv.columns |->
                           IF idx[r] \in Range(pv.index)
                           THEN Some([num |-> 100 * pv.values[row(idx[r])][c],
                                      den |-> MonthTotal(ex, idx[r])])
                           ELSE NaN])])]

S5_Percent ==
    /\ script = "s5" /\ pc = "grouped"
    /\ df_percent' = PivotPercent(df_group, df_explode)
    /\ pc' = "percent"
    /\ UNCHANGED <<script, df, df_da, df_explode, df_group, job_titles,
                   df_plot, df_da_skills, df_technology, again>>

TopTrendSkills == 5

\* df_da_percent.iloc[:, :5]
FirstColumns(t, n) ==
    [index   |-> t.index,
     columns |-> head(t.columns, n),
     values  |-> AsSeq([r \in DOMAIN t.values |-> head(t.values[r], n)])]

S5_Plot ==
    /\ script = "s5" /\ pc = "percent"
    /\ df_plot' = FirstColumns(df_percent, TopTrendSkills)
    /\ pc' = "done"
    /\ UNCHANGED <<script, df, df_da, df_explode, df_group, job_titles,
                   df_percent, df_da_skills, df_technology, again>>

(***************************************************************************)
(* Script 6: salary distribution of the 6 most common job titles.          *)
(***************************************************************************)
\* Mutant of HasSalary: no posting is dropped.
HasSalaryOrNot(p) == TRUE

HasSalary(p) == p.salary_year_avg # NaN

\* Series.median(): the middle of the present values in ascending order, the
\* mean of the two middle ones when their number is even, NaN when none.
Middle(x) ==
    LET n   == Len(x)
        pos == AsSeq([i \in 1..n |->
                  1 + Cardinality({j \in 1..n :
                         \/ Val(x[j]) < Val(x[i])
                         \/ Val(x[j]) = Val(x[i]) /\ j < i})])
        at(k) == Val(x[CHOOSE i \in 1..n : pos[i] = k])
    IN  IF n = 0 THEN NaN
        ELSE IF n % 2 = 1 THEN Some(at((n + 1) \div 2))
        ELSE Some((at(n \div 2) + at(n \div 2 + 1)) \div 2)

\* Mutant of median: a missing salary counts as salary 0.
median_missing_as_zero(col) ==
    Middle(AsSeq([i \in DOMAIN col |->
                    IF col[i] = NaN THEN Some(0) ELSE col[i]]))

median(col) == Middle(SelectSeq(col, LAMBDA v : v # NaN))

Salaries(d) == AsSeq([i \in DOMAIN d |-> d[i].salary_year_avg])

S6_DropNa ==
    /\ script = "s6" /\ pc = "normalized"
    /\ df' = SelectSeq(df, HasSalary)
    /\ pc' = "dropped"
    /\ UNCHANGED <<script, df_da, df_explode, df_group, job_titles,
                   df_percent, df_plot, df_da_skills, df_technology, again>>

TopSalaryTitles == 6

\* df.job_title_short.value_counts().index[:6].tolist()
TopTitlesOf(d, tie) ==
    head(Keys(value_counts(Titles(d), tie)), TopSalaryTitles)

S6_Top6 ==
    /\ script = "s6" /\ pc = "dropped"
    /\ \E tie \in TieOrders :
         /\ job_titles' = TopTitlesOf(df, tie)
         /\ df_da' = SelectSeq(df, LAMBDA p :
                        p.job_title_short \in Range(TopTitlesOf(df, tie)))
    /\ pc' = "filtered"
    /\ UNCHANGED <<script, df, df_explode, df_group, df_percent, df_plot,
                   df_da_skills, df_technology, again>>

\* top_6.groupby("job_title_short")["salary_year_avg"].median()
MedianByTitle(d) ==
    LET keys == SelectSeq(RoleOrder, LAMBDA t :
                    \E i \in DOMAIN d : d[i].job_title_short = t)
    IN  AsSeq([k \in DOMAIN keys |->
            [job_title_short |-> keys[k],
             median |-> median(Salaries(SelectSeq(d, LAMBDA p :
                                   p.job_title_short = keys[k])))]])

Medians(t) == AsSeq([k \in DOMAIN t |-> t[k].median])

S6_Order ==
    /\ script = "s6" /\ pc = "filtered"
    /\ \E tie \in TieOrders :
         LET g == MedianByTitle(df_da)
         IN  df_plot' = sort_values(g, Medians(g), tie)
    /\ pc' = "done"
    /\ UNCHANGED <<script, df, df_da, df_explode, df_group, job_titles,
                   df_percent, df_da_skills, df_technology, again>>

(***************************************************************************)
(* Script 7: top 10 highest paid and top 10 most in-demand skills.         *)
(***************************************************************************)
S7_Explode ==
    /\ script = "s7" /\ pc = "normalized"
    /\ df_da' = SelectSeq(df, IsDA)
    /\ df_explode' = explode(SelectSeq(df, IsDA))
    /\ pc' = "exploded"
    /\ UNCHANGED <<script, df, df_group, job_titles, df_percent, df_plot,
                   df_da_skills, df_technology, again>>

\* groupby("job_skills")["salary_year_avg"].agg(["count", "median"]): one
\* row per skill in key order; "count" counts the present salaries.
AggCount(col) == Cardinality({i \in DOMAIN col : col[i] # NaN})

AggBySkill(ex) ==
    LET keys == SelectSeq(SkillOrder, LAMBDA k :
                    \E i \in DOMAIN ex : ex[i].job_skills = Some(k))
        grp(k) == Salaries(SelectSeq(ex, LAMBDA r : r.job_skills = Some(k)))
    IN  AsSeq([j \in DOMAIN keys |->
            [job_skills |-> keys[j],
             count      |-> AggCount(grp(keys[j])),
             median     |-> median(grp(keys[j]))]])

Counts(t) == AsSeq([k \in DOMAIN t |-> Some(t[k].count)])

TopPaidSkills == 10

TopDemandSkills == 10

S7_TopPay ==
    /\ script = "s7" /\ pc = "exploded"
    /\ \E tie \in TieOrders :
         LET g == AggBySkill(df_explode)
         IN  df_plot' = head(sort_values(g, Medians(g), tie), TopPaidSkills)
    /\ pc' = "top_pay"
    /\ UNCHANGED <<script, df, df_da, df_explode, df_group, job_titles,
                   df_percent, df_da_skills, df_technology, again>>

\* sort by count, head(10), then sort by median.
DemandSkills(g, tie1, tie2) ==
    LET top == head(sort_values(g, Counts(g), tie1), TopDemandSkills)
    IN  sort_values(top, Medians(top), tie2)

S7_Skills ==
    /\ script = "s7" /\ pc = "top_pay"
    /\ \E tie1, tie2 \in TieOrders :
         df_da_skills' = DemandSkills(AggBySkill(df_explode), tie1, tie2)
    /\ pc' = "done"
    /\ UNCHANGED <<script, df, df_da, df_explode, df_group, job_titles,
                   df_percent, df_plot, df_technology, again>>

(***************************************************************************)
(* Script 8: most optimal skills (demand against median salary).           *)
(***************************************************************************)
S8_Explode ==
    /\ script = "s8" /\ pc = "normalized"
    /\ df_da' = SelectSeq(SelectSeq(df, IsDA), HasSalary)
    /\ df_explode' = explode(SelectSeq(SelectSeq(df, IsDA), HasSalary))
    /\ pc' = "exploded"
    /\ UNCHANGED <<script, df, df_group, job_titles, df_percent, df_plot,
                   df_da_skills, df_technology, again>>

\* .rename(columns={"count": "skill_count", "median": "median_salary"})
Renamed(t) ==
    AsSeq([k \in DOMAIN t |->
        [job_skills    |-> t[k].job_skills,
         skill_count   |-> t[k].count,
         median_salary |-> t[k].median]])

S8_Group ==
    /\ script = "s8" /\ pc = "exploded"
    /\ \E tie \in TieOrders :
         LET g == AggBySkill(df_explode)
         IN  df_group' = Renamed(sort_values(g, Counts(g), tie))
    /\ pc' = "grouped"
    /\ UNCHANGED <<script, df, df_da, df_explode, job_titles, df_percent,
                   df_plot, df_da_skills, df_technology, again>>

\* Mutant of da_job_count: the rows of the exploded frame.
da_job_count_exploded(da) == Len(explode(da))

\* da_job_count = len(df_da)
da_job_count(da) == Len(da)

\* df_da_group.skill_count / da_job_count * 100
WithPercent(g, da) ==
    AsSeq([k \in DOMAIN g |->
        [job_skills    |-> g[k].job_skills,
         skill_count   |-> g[k].skill_count,
         median_salary |-> g[k].median_salary,
         skill_percent |-> [num |-> g[k].skill_count * 100,
                            den |-> da_job_count(da)]]])

S8_Percent ==
    /\ script = "s8" /\ pc = "grouped"
    /\ df_percent' = WithPercent(df_group, df_da)
    /\ pc' = "percent"
    /\ UNCHANGED <<script, df, df_da, df_explode, df_group, job_titles,
                   df_plot, df_da_skills, df_technology, again>>

\* df["job_type_skills"].drop_duplicates().dropna()
TechnologyRows(d) ==
    LET u == unique(AsSeq([i \in DOMAIN d |-> d[i].job_type_skills]))
        p == SelectSeq(u, LAMBDA v : v # NaN)
    IN  AsSeq([k \in DOMAIN p |-> Val(p[k])])

\* technology_dict.setdefault(key, []).extend(value)
Extend(dict, item) ==
    IF \E k \in DOMAIN dict : dict[k].technology = item.technology
    THEN AsSeq([k \in DOMAIN dict |->
            IF dict[k].technology = item.technology
            THEN [dict[k] EXCEPT !.skills = @ \o item.skills]
            ELSE dict[k]])
    ELSE Append(dict, item)

RECURSIVE ExtendAll(_, _)
ExtendAll(dict, items) ==
    IF items = <<>> THEN dict
    ELSE ExtendAll(Extend(dict, Head(items)), Tail(items))

\* The loop over the rows: the dictionary in insertion order.
RECURSIVE technology_dict(_)
technology_dict(rows) ==
    IF rows = <<>> THEN <<>>
    ELSE ExtendAll(technology_dict(SubSeq(rows, 1, Len(rows) - 1)),
                   rows[Len(rows)])

\* list(set(l)): the distinct elements in an order the set chooses.
RECURSIVE ListsOfSet(_)
ListsOfSet(S) ==
    IF S = {} THEN {<<>>}
    ELSE UNION {{<<x>> \o t : t \in ListsOfSet(S \ {x})} : x \in S}

\* The frames [(tech, skill) for tech, skills in ... for skill in skills]
\* that the de-duplicated dictionary can give.
RECURSIVE TechnologyFrames(_)
TechnologyFrames(dict) ==
    IF dict = <<>> THEN {<<>>}
    ELSE {AsSeq([k \in DOMAIN l |->
                    [technology |-> Head(dict).technology, skills |-> l[k]]])
            \o rest :
            l \in ListsOfSet(Range(Head(dict).skills)),
            rest \in TechnologyFrames(Tail(dict))}

S8_Technology ==
    /\ script = "s8" /\ pc = "percent"
    /\ df_technology' \in TechnologyFrames(technology_dict(TechnologyRows(df)))
    /\ pc' = "technology"
    /\ UNCHANGED <<script, df, df_da, df_explode, df_group, job_titles,
                   df_percent, df_plot, df_da_skills, again>>

\* df_da_group.merge(df_technology, left_on="job_skills", right_on="skills"):
\* an inner join, in the order of the left rows.
RECURSIVE merge(_, _)
merge(left, right) ==
    IF left = <<>> THEN <<>>
    ELSE LET l == Head(left)
             m == SelectSeq(right, LAMBDA r : r.skills = l.job_skills)
         IN  AsSeq([k \in DOMAIN m |->
                [job_skills    |-> l.job_skills,
                 skill_count   |-> l.skill_count,
                 median_salary |-> l.median_salary,
                 skill_percent |-> l.skill_percent,
                 technology    |-> m[k].technology,
                 skills        |-> m[k].skills]])
             \o merge(Tail(left), right)

skill_limit == 5

\* Mutant of HighDemand: the threshold itself passes.
HighDemandOrEqual(r) ==
    r.skill_percent.num >= skill_limit * r.skill_percent.den

\* skill_percent > skill_limit
HighDemand(r) == r.skill_percent.num > skill_limit * r.skill_percent.den

\* Mutant of drop_duplicates: the last row of each skill is kept.
drop_duplicates_keep_last(t) ==
    LET keep == {k \in DOMAIN t :
                    \A j \in (k + 1)..Len(t) : t[j].skills # t[k].skills}
    IN  SelectSeq(AsSeq([k \in DOMAIN t |-> [row |-> t[k], keep |-> k \in keep]]),
                  LAMBDA x : x.keep)

\* drop_duplicates(subset="skills"): the first row of each skill.
drop_duplicates(t) ==
    LET keep == {k \in DOMAIN t : \A j \in 1..(k - 1) : t[j].skills # t[k].skills}
    IN  SelectSeq(AsSeq([k \in DOMAIN t |-> [row |-> t[k], keep |-> k \in keep]]),
                  LAMBDA x : x.keep)

Rows(t) == AsSeq([k \in DOMAIN t |-> t[k].row])

S8_Merge ==
    /\ script = "s8" /\ pc = "technology"
    /\ df_plot' = Rows(drop_duplicates(
                     SelectSeq(merge(df_percent, df_technology), HighDemand)))
    /\ pc' = "done"
    /\ UNCHANGED <<script, df, df_da, df_explode, df_group, job_titles,
                   df_percent, df_da_skills, df_technology, again>>

(***************************************************************************)
(* Script 2: one pie per flag column, in the order of dict_column.         *)
(***************************************************************************)
dict_column == <<"job_work_from_home", "job_no_degree_mention",
                 "job_health_insurance">>

labels == <<"False", "True">>

\* Axes.pie(x, labels=labels) raises ValueError when the two lengths differ.
PieRaises(x, lab) == Len(x) # Len(lab)

\* The wedges of a pie: the k-th wedge has the k-th value of x and the k-th
\* label.
pie(x, lab) ==
    AsSeq([k \in DOMAIN x |-> [label |-> lab[k], x |-> x[k].count]])

FlagColumn(d, c) == AsSeq([i \in DOMAIN d |-> Some(d[i][c])])

\* The loop over dict_column: the pies drawn before the first error.
S2_Pie ==
    /\ script = "s2" /\ pc = "normalized"
    /\ df_da' = SelectSeq(df, IsDA)
    /\ \E ties \in [DOMAIN dict_column -> TieOrders] :
         LET x == AsSeq([i \in DOMAIN dict_column |->
                     value_counts(FlagColumn(SelectSeq(df, IsDA),
                                             dict_column[i]), ties[i])])
             bad == {i \in DOMAIN dict_column : PieRaises(x[i], labels)}
             drawn == IF bad = {} THEN Len(dict_column)
                      ELSE (CHOOSE i \in bad : \A j \in bad : i <= j) - 1
         IN  /\ df_plot' = AsSeq([i \in 1..drawn |-> pie(x[i], labels)])
             /\ pc' = IF bad = {} THEN "done" ELSE "pie_error"
    /\ UNCHANGED <<script, df, df_explode, df_group, job_titles, df_percent,
                   df_da_skills, df_technology, again>>

(***************************************************************************)
(* Scripts 1 and 3: top 10 countries / companies of Data Analyst postings. *)
(***************************************************************************)
TopCountries == 10

TopCompanies == 10

S1_Count ==
    /\ script = "s1" /\ pc = "normalized"
    /\ df_da' = SelectSeq(df, IsDA)
    /\ \E tie \in TieOrders :
         df_plot' = head(value_counts(Column(SelectSeq(df, IsDA),
                                             "job_country"), tie),
                         TopCountries)
    /\ pc' = "done"
    /\ UNCHANGED <<script, df, df_explode, df_group, job_titles, df_percent,
                   df_da_skills, df_technology, again>>

S3_Count ==
    /\ script = "s3" /\ pc = "normalized"
    /\ df_da' = SelectSeq(df, IsDA)
    /\ \E tie \in TieOrders :
         df_plot' = head(value_counts(Column(SelectSeq(df, IsDA),
                                             "company_name"), tie),
                         TopCompanies)
    /\ pc' = "done"
    /\ UNCHANGED <<script, df, df_explode, df_group, job_titles, df_percent,
                   df_da_skills, df_technology, again>>

(***************************************************************************)
(* Rank-and-truncate applied once more to the table a script rendered      *)
(* (no script does this; it is the second application whose result the     *)
(* idempotence of rank-and-truncate is about).                             *)
(***************************************************************************)
SkillCounts(t) == AsSeq([k \in DOMAIN t |-> Some(t[k].skill_count)])

\* The "total" row of script 5 for the given columns.
ColumnTotals(cols, ex) ==
    AsSeq([c \in DOMAIN cols |->
        Some(Cardinality({i \in DOMAIN ex : ex[i].job_skills = Some(cols[c])}))])

Rerank ==
    /\ pc = "done"
    /\ script \in {"s1", "s3", "s4", "s5", "s6", "s7"}
    /\ \E tie1, tie2 \in TieOrders :
         again' =
           CASE script = "s1" ->
                  head(sort_values(df_plot, Counts(df_plot), tie1), TopCountries)
             [] script = "s3" ->
                  head(sort_values(df_plot, Counts(df_plot), tie1), TopCompanies)
             [] script = "s4" ->
                  AsSeq([i \in DOMAIN df_plot |->
                     head(sort_values(df_plot[i], SkillCounts(df_plot[i]), tie1),
                          TopSkillsPerTitle)])
             [] script = "s5" ->
                  head(sort_values(df_plot.columns,
                                   ColumnTotals(df_plot.columns, df_explode),
                                   tie1),
                       TopTrendSkills)
             [] script = "s6" -> TopTitlesOf(df_da, tie1)
             [] script = "s7" ->
                  [top_pay |-> head(sort_values(df_plot, Medians(df_plot), tie1),
                                    TopPaidSkills),
                   skills  |-> DemandSkills(df_da_skills, tie1, tie2)]
    /\ pc' = "reranked"
    /\ UNCHANGED <<script, df, df_da, df_explode, df_group, job_titles,
                   df_percent, df_plot, df_da_skills, df_technology>>

Next ==
    \/ Normalize
    \/ S1_Count
    \/ S2_Pie
    \/ S3_Count
    \/ S4_Explode
    \/ S4_Group
    \/ S4_Percent
    \/ S4_Plot
    \/ S5_Explode
    \/ S5_Pivot
    \/ S5_Percent
    \/ S5_Plot
    \/ S6_DropNa
    \/ S6_Top6
    \/ S6_Order
    \/ S7_Explode
    \/ S7_TopPay
    \/ S7_Skills
    \/ S8_Explode
    \/ S8_Group
    \/ S8_Percent
    \/ S8_Technology
    \/ S8_Merge
    \/ Rerank

Spec == Init /\ [][Next]_vars

(***************************************************************************)
(* Properties.  They are stated on the loaded dataset itself, not through  *)
(* the operators of the pipeline.                                          *)
(***************************************************************************)
\* The parsed skill list of a posting (empty when the field is absent).
ListOf(p) == IF p.job_skills = NaN THEN <<>> ELSE Val(p.job_skills)

Mentions(p, k) == k \in Range(ListOf(p))

RECURSIVE Sum(_)
Sum(s) == IF s = <<>> THEN 0 ELSE Head(s) + Sum(Tail(s))

\* Postings of the whole dataset with the given title.
PostingsOfTitle(title) ==
    Cardinality({i \in DOMAIN df : df[i].job_title_short = title})

S4Computed == script = "s4" /\ pc \in {"percent", "done", "reranked"}

\* C1: in script 4 every (skill, title) row has skill_percent equal to
\* 100 * skill_count / (the postings of the whole dataset with that title).
C1_PercentOfTitlePostings ==
    S4Computed =>
        \A j \in DOMAIN df_percent :
            LET r == df_percent[j]
            IN  /\ r.skill_percent.den > 0
                /\ r.skill_percent.num * PostingsOfTitle(r.job_title_short)
                      = 100 * r.skill_count * r.skill_percent.den

\* Script 4 has computed a percentage for a title whose posting count is
\* neither the size of the dataset nor the number of exploded rows.
C1_Witness ==
    /\ S4Computed
    /\ \E j \in DOMAIN df_percent :
          /\ PostingsOfTitle(df_percent[j].job_title_short) < Len(df)
          /\ PostingsOfTitle(df_percent[j].job_title_short) # Len(df_explode)
          /\ df_percent[j].skill_count > 1

\* Data Analyst postings of the dataset with a present salary.
SalariedAnalysts ==
    Cardinality({i \in DOMAIN df : IsDA(df[i]) /\ df[i].salary_year_avg # NaN})

S8Computed ==
    script = "s8" /\ pc \in {"percent", "technology", "done"}

\* C2: in script 8 every skill has skill_percent equal to
\* 100 * skill_count / (the salaried Data Analyst postings, one per posting).
C2_PercentOfSalariedAnalysts ==
    S8Computed =>
        \A j \in DOMAIN df_percent :
            LET r == df_percent[j]
            IN  /\ r.skill_percent.den > 0
                /\ r.skill_percent.num * SalariedAnalysts
                      = 100 * r.skill_count * r.skill_percent.den

\* Script 8 has computed percentages where the exploded rows outnumber the
\* salaried Data Analyst postings, and some Data Analyst posting has no salary.
C2_Witness ==
    /\ S8Computed
    /\ df_percent # <<>>
    /\ Len(df_explode) > SalariedAnalysts
    /\ \E i \in DOMAIN df : IsDA(df[i]) /\ df[i].salary_year_avg = NaN

\* Data Analyst postings of a month, and those among them that list a skill.
AnalystsOfMonth(m) ==
    Cardinality({i \in DOMAIN df : IsDA(df[i]) /\ df[i].job_posted_date[2] = m})

AnalystsOfMonthWith(m, k) ==
    Cardinality({i \in DOMAIN df : /\ IsDA(df[i])
                                   /\ df[i].job_posted_date[2] = m
                                   /\ Mentions(df[i], k)})

\* C3: in script 5 the value of a month and a skill is 100 * (Data Analyst
\* postings of the month that mention the skill) / (Data Analyst postings of
\* the month).
C3_PercentOfMonthPostings ==
    (script = "s5" /\ pc \in {"percent", "done", "reranked"}) =>
        \A r \in DOMAIN df_percent.index : \A c \in DOMAIN df_percent.columns :
            LET v == df_percent.values[r][c]
                m == df_percent.index[r]
                k == df_percent.columns[c]
            IN  v # NaN =>
                  Val(v).num * AnalystsOfMonth(m)
                     = 100 * AnalystsOfMonthWith(m, k) * Val(v).den

\* C4: normalisation never ends the run, whatever the job_skills strings are.
C4_NormalizeNeverAborts == pc # "aborted"

(* Occurrences of a skill: the pairs <<posting, place in its list>>.  The   *)
(* salary of an occurrence is the salary of its posting.                   *)
Occurrences(k, Keep(_)) ==
    {<<i, j>> \in (DOMAIN df) \X (1..Len(SkillOrder) + 1) :
        /\ Keep(df[i])
        /\ j \in DOMAIN ListOf(df[i])
        /\ ListOf(df[i])[j] = k}

PostingsTitled(title) ==
    {<<i, 1>> : i \in {n \in DOMAIN df : df[n].job_title_short = title}}

SalaryAt(x) == df[x[1]].salary_year_avg

\* The k-th smallest salary among the occurrences P, by counting.
KthSalary(P, k) ==
    CHOOSE v \in {Val(SalaryAt(x)) : x \in P} :
        /\ Cardinality({x \in P : Val(SalaryAt(x)) < v}) < k
        /\ k <= Cardinality({x \in P : Val(SalaryAt(x)) <= v})

\* The median of the present salaries of the occurrences G.
MedianOfPresent(G) ==
    LET P == {x \in G : SalaryAt(x) # NaN}
        n == Cardinality(P)
    IN  IF n = 0 THEN NaN
        ELSE IF n % 2 = 1 THEN Some(KthSalary(P, (n + 1) \div 2))
        ELSE Some((KthSalary(P, n \div 2) + KthSalary(P, n \div 2 + 1)) \div 2)

IsSalariedDA(p) == IsDA(p) /\ p.salary_year_avg # NaN

\* C5: every median of a salary-dependent aggregate (per title in script 6,
\* per skill in scripts 7 and 8) is the median of exactly the present
\* salaries of the group; missing salaries do not enter it.
C5_MedianOfPresentSalaries ==
    /\ (script = "s6" /\ pc \in {"done", "reranked"}) =>
          \A j \in DOMAIN df_plot :
              df_plot[j].median
                 = MedianOfPresent(PostingsTitled(df_plot[j].job_title_short))
    /\ (script = "s7" /\ pc \in {"top_pay", "done", "reranked"}) =>
          \A j \in DOMAIN df_plot :
              df_plot[j].median
                 = MedianOfPresent(Occurrences(df_plot[j].job_skills, IsDA))
    /\ (script = "s7" /\ pc \in {"done", "reranked"}) =>
          \A j \in DOMAIN df_da_skills :
              df_da_skills[j].median
                 = MedianOfPresent(Occurrences(df_da_skills[j].job_skills, IsDA))
    /\ (script = "s8" /\ pc \in {"grouped", "percent", "technology", "done"}) =>
          \A j \in DOMAIN df_group :
              df_group[j].median_salary
                 = MedianOfPresent(Occurrences(df_group[j].job_skills,
                                               IsSalariedDA))

\* Script 7 has rendered a skill whose group holds a posting without salary
\* next to two postings with different salaries.
C5_Witness ==
    /\ script = "s7" /\ pc = "done"
    /\ \E j \in DOMAIN df_da_skills :
          LET G == Occurrences(df_da_skills[j].job_skills, IsDA)
          IN  /\ \E x \in G : SalaryAt(x) = NaN
              /\ \E x, y \in G : /\ SalaryAt(x) # NaN /\ SalaryAt(y) # NaN
                                 /\ SalaryAt(x) # SalaryAt(y)
              /\ df_da_skills[j].median # NaN

\* Postings of a title that list a skill.
PostingsWith(title, k) ==
    Cardinality({i \in DOMAIN df : /\ df[i].job_title_short = title
                                   /\ Mentions(df[i], k)})

ListLengths(d) == AsSeq([i \in DOMAIN d |-> Len(ListOf(d[i]))])

\* C6: after expand and group, the count of a skill is the number of
\* postings that list it, and a posting without skills adds no row to the
\* expansion (scripts 4 and 5).
C6_CountIsPostingsListingSkill ==
    /\ (script = "s4" /\ pc \in {"grouped", "percent", "done", "reranked"}) =>
          /\ \A j \in DOMAIN df_group :
                df_group[j].skill_count
                   = PostingsWith(df_group[j].job_title_short,
                                  df_group[j].job_skills)
          /\ Len(df_explode) = Sum(ListLengths(df))
    /\ (script = "s5" /\ pc \in {"grouped", "percent", "done", "reranked"}) =>
          /\ \A r \in DOMAIN df_group.index : \A c \in DOMAIN df_group.columns :
                df_group.values[r][c]
                   = AnalystsOfMonthWith(df_group.index[r], df_group.columns[c])
          /\ Len(df_explode) = Sum(ListLengths(df_da))

PlainCounts(t) == AsSeq([k \in DOMAIN t |-> t[k].count])

PlainSkillCounts(t) == AsSeq([k \in DOMAIN t |-> t[k].skill_count])

\* C7: the per-group counts of the group step add up to the number of rows
\* of the expand step (scripts 4, 7, 8; in script 7 when no group is cut).
C7_CountConservation ==
    /\ (script = "s4" /\ pc \in {"grouped", "percent", "done", "reranked"}) =>
          Sum(PlainSkillCounts(df_group)) = Len(df_explode)
    /\ (script = "s7" /\ pc \in {"done", "reranked"}
          /\ Len(df_da_skills) < TopDemandSkills) =>
          Sum(PlainCounts(df_da_skills)) = Len(df_explode)
    /\ (script = "s8" /\ pc \in {"grouped", "percent", "technology", "done"}) =>
          Sum(PlainSkillCounts(df_group)) = Len(df_explode)

InPercentRange(q) == q.den > 0 => (0 <= q.num /\ q.num <= 100 * q.den)

\* C8: every percentage (skill_percent of scripts 4 and 8, the monthly
\* likelihood of script 5) lies in [0, 100] when its denominator is positive.
C8_PercentWithinRange ==
    /\ (S4Computed \/ S8Computed) =>
          \A j \in DOMAIN df_percent : InPercentRange(df_percent[j].skill_percent)
    /\ (script = "s5" /\ pc \in {"percent", "done", "reranked"}) =>
          \A r \in DOMAIN df_percent.values :
              \A c \in DOMAIN df_percent.values[r] :
                  df_percent.values[r][c] # NaN =>
                      InPercentRange(Val(df_percent.values[r][c]))

(* Rank-and-truncate.  Ranking keys are read off the dataset.              *)
Descending(keys) ==
    \A i, j \in DOMAIN keys : i < j => keys[i] >= keys[j]

\* Descending with missing keys last.
DescendingNaNLast(keys) ==
    \A i, j \in DOMAIN keys :
        i < j => \/ keys[j] = NaN
                 \/ keys[i] # NaN /\ Val(keys[i]) >= Val(keys[j])

\* a ranks at least as high as b (a missing key ranks lowest).
AtLeast(a, b) == b = NaN \/ (a # NaN /\ Val(a) >= Val(b))

CountOfCountry(c) ==
    Cardinality({i \in DOMAIN df : IsDA(df[i]) /\ df[i].job_country = Some(c)})

CountOfCompany(c) ==
    Cardinality({i \in DOMAIN df : IsDA(df[i]) /\ df[i].company_name = Some(c)})

TotalOfSkill(k) == Cardinality(Occurrences(k, IsDA))

SalariesOfSkill(k) ==
    Cardinality({x \in Occurrences(k, IsDA) : SalaryAt(x) # NaN})

SkillsListed == {k \in Range(SkillOrder) : TotalOfSkill(k) > 0}

TitlesPresent == {df[i].job_title_short : i \in DOMAIN df}

SkillsOf(t) == {t[j].job_skills : j \in DOMAIN t}

\* Scripts 1 and 3: at most 10 rows, descending by count, no group left out
\* outranks a returned one.
RankedCounts(Count(_), present, n) ==
    /\ Len(df_plot) <= n
    /\ Descending(PlainCounts(df_plot))
    /\ \A j \in DOMAIN df_plot : df_plot[j].count = Count(df_plot[j].key)
    /\ \A c \in present \ {df_plot[j].key : j \in DOMAIN df_plot} :
          \A j \in DOMAIN df_plot : Count(c) <= df_plot[j].count

RankedS1 ==
    (script = "s1" /\ pc \in {"done", "reranked"}) =>
        RankedCounts(CountOfCountry,
                     {c \in Range(Countries) : CountOfCountry(c) > 0},
                     TopCountries)

RankedS3 ==
    (script = "s3" /\ pc \in {"done", "reranked"}) =>
        RankedCounts(CountOfCompany,
                     {c \in Range(Companies) : CountOfCompany(c) > 0},
                     TopCompanies)

\* Script 4: per title at most 5 rows, descending by skill_count, and no row
\* of the title left out outranks a returned one.
RankedS4 ==
    (script = "s4" /\ pc \in {"done", "reranked"}) =>
        /\ Len(job_titles) <= TopTitles
        /\ \A t \in TitlesPresent \ Range(job_titles) :
              \A i \in DOMAIN job_titles :
                  PostingsOfTitle(t) <= PostingsOfTitle(job_titles[i])
        /\ \A i \in DOMAIN df_plot :
              /\ Len(df_plot[i]) <= TopSkillsPerTitle
              /\ Descending(PlainSkillCounts(df_plot[i]))
              /\ \A q \in DOMAIN df_percent :
                    (/\ df_percent[q].job_title_short = job_titles[i]
                     /\ df_percent[q] \notin Range(df_plot[i])) =>
                       \A j \in DOMAIN df_plot[i] :
                           df_percent[q].skill_count
                              <= df_plot[i][j].skill_count

\* Script 5: at most 5 columns, descending by total, no column left out
\* outranks a returned one.
RankedS5 ==
    (script = "s5" /\ pc \in {"done", "reranked"}) =>
        /\ Len(df_plot.columns) <= TopTrendSkills
        /\ \A i, j \in DOMAIN df_plot.columns :
              i < j => TotalOfSkill(df_plot.columns[i])
                          >= TotalOfSkill(df_plot.columns[j])
        /\ \A k \in SkillsListed \ Range(df_plot.columns) :
              \A j \in DOMAIN df_plot.columns :
                  TotalOfSkill(k) <= TotalOfSkill(df_plot.columns[j])

\* Script 6: at most 6 titles, descending by the number of (salaried)
\* postings, no title left out outranks a returned one.
RankedS6 ==
    (script = "s6" /\ pc \in {"filtered", "done", "reranked"}) =>
        /\ Len(job_titles) <= TopSalaryTitles
        /\ \A i, j \in DOMAIN job_titles :
              i < j => PostingsOfTitle(job_titles[i])
                          >= PostingsOfTitle(job_titles[j])
        /\ \A t \in TitlesPresent \ Range(job_titles) :
              \A i \in DOMAIN job_titles :
                  PostingsOfTitle(t) <= PostingsOfTitle(job_titles[i])

\* Script 7: at most 10 rows in both tables; the highest paid by median,
\* the most in demand chosen by count and then ordered by median.
RankedS7 ==
    /\ (script = "s7" /\ pc \in {"top_pay", "done", "reranked"}) =>
          /\ Len(df_plot) <= TopPaidSkills
          /\ DescendingNaNLast(Medians(df_plot))
          /\ \A k \in SkillsListed \ SkillsOf(df_plot) :
                \A j \in DOMAIN df_plot :
                    AtLeast(df_plot[j].median,
                            MedianOfPresent(Occurrences(k, IsDA)))
    /\ (script = "s7" /\ pc \in {"done", "reranked"}) =>
          /\ Len(df_da_skills) <= TopDemandSkills
          /\ DescendingNaNLast(Medians(df_da_skills))
          /\ \A k \in SkillsListed \ SkillsOf(df_da_skills) :
                \A j \in DOMAIN df_da_skills :
                    SalariesOfSkill(k) <= df_da_skills[j].count

RankedAndTruncated ==
    RankedS1 /\ RankedS3 /\ RankedS4 /\ RankedS5 /\ RankedS6 /\ RankedS7

\* The tables a script ranked and truncated, and the second application.
Rendered ==
    CASE script = "s4" -> df_plot
      [] script = "s5" -> <<df_plot.columns>>
      [] script = "s6" -> <<job_titles>>
      [] script = "s7" -> <<df_plot, df_da_skills>>
      [] OTHER         -> <<df_plot>>

Reapplied ==
    CASE script = "s4" -> again
      [] script = "s7" -> <<again.top_pay, again.skills>>
      [] OTHER         -> <<again>>

\* The ranking keys of the rows of a rendered table.
KeysOfRow(r) ==
    CASE script \in {"s1", "s3"} -> <<r.count>>
      [] script = "s4" -> <<r.skill_count>>
      [] script = "s5" -> <<TotalOfSkill(r)>>
      [] script = "s6" -> <<PostingsOfTitle(r)>>
      [] script = "s7" -> <<r.count, r.median>>

\* No two rows of the table agree on a ranking key.
NoTies(t) ==
    \A i, j \in DOMAIN t :
        i # j => \A n \in DOMAIN KeysOfRow(t[i]) :
                    KeysOfRow(t[i])[n] # KeysOfRow(t[j])[n]

\* C9 as stated: ranked, truncated, and the second application returns the
\* same rows in the same order.
C9_RankTruncateSameOrder ==
    /\ RankedAndTruncated
    /\ pc = "reranked" => Reapplied = Rendered

\* C9 as amended: ranked, truncated, and the second application returns the
\* same rows; in the same order when no two rows agree on a ranking key.
C9_RankTruncateSameRows ==
    /\ RankedAndTruncated
    /\ pc = "reranked" =>
          /\ Len(Reapplied) = Len(Rendered)
          /\ \A t \in DOMAIN Rendered :
                /\ Len(Reapplied[t]) = Len(Rendered[t])
                /\ Range(Reapplied[t]) = Range(Rendered[t])
                /\ NoTies(Rendered[t]) => Reapplied[t] = Rendered[t]

\* Script 7 has ranked more than 10 skills, cut them to 10 twice, and
\* the second application has run.
C9_Witness ==
    /\ script = "s7" /\ pc = "reranked"
    /\ Cardinality(SkillsListed) > TopPaidSkills
    /\ Len(df_plot) = TopPaidSkills
    /\ Len(df_da_skills) = TopDemandSkills
    /\ Len(again.skills) = TopDemandSkills

\* The technology mapping of the dataset: the categories that hold a skill.
CategoriesOf(k) ==
    {item.technology :
        item \in {it \in UNION {Range(Val(df[i].job_type_skills)) :
                                  i \in {n \in DOMAIN df :
                                           df[n].job_type_skills # NaN}} :
                    k \in Range(it.skills)}}

AboveLimit(k) ==
    \E j \in DOMAIN df_percent :
        /\ df_percent[j].job_skills = k
        /\ df_percent[j].skill_percent.num
              > skill_limit * df_percent[j].skill_percent.den

\* C10: the final table of script 8 holds a row for a skill exactly when the
\* skill_percent of the skill is above 5 and the technology mapping holds the
\* skill; the row carries a category of the skill.
C10_HighDemandWithTechnology ==
    (script = "s8" /\ pc = "done") =>
        /\ \A k \in Range(SkillOrder) :
              (k \in SkillsOf(df_plot)) <=>
                 (AboveLimit(k) /\ CategoriesOf(k) # {})
        /\ \A j \in DOMAIN df_plot :
              /\ df_plot[j].skills = df_plot[j].job_skills
              /\ df_plot[j].technology \in CategoriesOf(df_plot[j].job_skills)

\* Script 8 has finished with a row in the table, a mapped skill left out at
\* exactly 5 percent, and a skill above 5 percent left out for want of a
\* technology.
C10_Witness ==
    /\ script = "s8" /\ pc = "done"
    /\ df_plot # <<>>
    /\ \E j \in DOMAIN df_percent :
          /\ CategoriesOf(df_percent[j].job_skills) # {}
          /\ df_percent[j].skill_percent.num
                = skill_limit * df_percent[j].skill_percent.den
    /\ \E j \in DOMAIN df_percent :
          /\ CategoriesOf(df_percent[j].job_skills) = {}
          /\ AboveLimit(df_percent[j].job_skills)

\* C11: in script 7 the count of a skill is the number of times the skill
\* appears among the Data Analyst postings, with or without a salary, and
\* the most in-demand skills are those that appear the most: no skill left
\* out of the table appears more often than a skill in it.
C11_CountIsAppearances ==
    (script = "s7" /\ pc = "done") =>
        /\ \A j \in DOMAIN df_plot :
              df_plot[j].count = TotalOfSkill(df_plot[j].job_skills)
        /\ \A j \in DOMAIN df_da_skills :
              /\ df_da_skills[j].count
                    = TotalOfSkill(df_da_skills[j].job_skills)
              /\ \A k \in SkillsListed \ SkillsOf(df_da_skills) :
                    TotalOfSkill(k)
                       <= TotalOfSkill(df_da_skills[j].job_skills)

\* Data Analyst postings whose flag column c holds b.
AnalystsFlagged(c, b) ==
    Cardinality({i \in DOMAIN df : IsDA(df[i]) /\ df[i][c] = b})

\* C12: script 2 draws the three pies for every distribution of the flags,
\* and in each the slice labelled "True" carries the number of Data Analyst
\* postings whose flag is true, the slice labelled "False" the number of
\* those whose flag is false.
C12_PieLabelsMatchValues ==
    (script = "s2" /\ pc \in {"done", "pie_error"}) =>
        /\ pc = "done"
        /\ Len(df_plot) = Len(dict_column)
        /\ \A i \in DOMAIN df_plot :
              \A k \in DOMAIN df_plot[i] :
                  df_plot[i][k].x =
                     AnalystsFlagged(dict_column[i],
                                     df_plot[i][k].label = "True")

\* C13: in script 6 no posting with a missing salary is left when the
\* grouping starts; the titles chosen are the (at most) six titles with the
\* most salaried postings; top_6 holds exactly the postings of those titles;
\* and the order handed to the plot lists those titles by descending median
\* of their present salaries.
C13_SalaryDistribution ==
    /\ (script = "s6" /\ pc \in {"dropped", "filtered", "done", "reranked"}) =>
          \A i \in DOMAIN df : df[i].salary_year_avg # NaN
    /\ (script = "s6" /\ pc \in {"filtered", "done", "reranked"}) =>
          /\ Len(job_titles) = Min(TopSalaryTitles, Cardinality(TitlesPresent))
          /\ Cardinality(Range(job_titles)) = Len(job_titles)
          /\ Range(job_titles) \subseteq TitlesPresent
          /\ \A t \in TitlesPresent \ Range(job_titles) :
                \A i \in DOMAIN job_titles :
                    PostingsOfTitle(t) <= PostingsOfTitle(job_titles[i])
          /\ df_da = SelectSeq(df, LAMBDA p :
                        p.job_title_short \in Range(job_titles))
    /\ (script = "s6" /\ pc \in {"done", "reranked"}) =>
          /\ Len(df_plot) = Len(job_titles)
          /\ {df_plot[j].job_title_short : j \in DOMAIN df_plot}
                = Range(job_titles)
          /\ \A j \in DOMAIN df_plot :
                /\ df_plot[j].median # NaN
                /\ df_plot[j].median
                      = MedianOfPresent(
                           {x \in PostingsTitled(df_plot[j].job_title_short) :
                               df[x[1]] \in Range(df_da)})
          /\ \A i, j \in DOMAIN df_plot :
                i < j => Val(df_plot[i].median) >= Val(df_plot[j].median)

\* Script 6 has finished: a posting without a salary was dropped, seven
\* titles were present and six were kept, and the medians of the first and
\* the last title differ.
C13_Witness ==
    /\ script = "s6" /\ pc = "done"
    /\ Len(df) < Len(Background6) + NPosts
    /\ Cardinality(TitlesPresent) > TopSalaryTitles
    /\ Len(job_titles) = TopSalaryTitles
    /\ Len(df_da) < Len(df)
    /\ Val(df_plot[1].median) > Val(df_plot[Len(df_plot)].median)

\* The places <<posting, item>> of the dataset where a category is named,
\* and the category of a skill that is named first.
PlacesOf(c) ==
    {<<i, j>> \in (DOMAIN df) \X (1..Len(SkillOrder)) :
        /\ df[i].job_type_skills # NaN
        /\ j \in DOMAIN Val(df[i].job_type_skills)
        /\ Val(df[i].job_type_skills)[j].technology = c}

Earlier(a, b) == a[1] < b[1] \/ (a[1] = b[1] /\ a[2] <= b[2])

NamedBefore(c, d) ==
    \E a \in PlacesOf(c) : \A b \in PlacesOf(d) : Earlier(a, b)

FirstCategoryOf(k) ==
    CHOOSE c \in CategoriesOf(k) : \A d \in CategoriesOf(k) : NamedBefore(c, d)

\* C14: in script 8 the technology frame holds a skill at most once within
\* a category, the final table holds at most one row per skill, and the
\* technology of a row is the category of the skill that the dataset names
\* first, whatever order the de-duplication gave the skills of a category.
C14_OneLabelPerSkill ==
    /\ (script = "s8" /\ pc \in {"technology", "done"}) =>
          \A i, j \in DOMAIN df_technology :
              (/\ df_technology[i].technology = df_technology[j].technology
               /\ df_technology[i].skills = df_technology[j].skills) => i = j
    /\ (script = "s8" /\ pc = "done") =>
          /\ \A i, j \in DOMAIN df_plot :
                df_plot[i].skills = df_plot[j].skills => i = j
          /\ \A j \in DOMAIN df_plot :
                df_plot[j].technology = FirstCategoryOf(df_plot[j].skills)

\* Script 8 has finished with a row for a skill of two categories, and a
\* category of the frame was given one of its skills by two postings.
C14_Witness ==
    /\ script = "s8" /\ pc = "done"
    /\ \E j \in DOMAIN df_plot :
          Cardinality(CategoriesOf(df_plot[j].skills)) > 1
    /\ \E r \in Range(df_technology) :
          \E a, b \in PlacesOf(r.technology) :
              /\ a[1] # b[1]
              /\ df[a[1]].job_type_skills # df[b[1]].job_type_skills
              /\ r.skills \in Range(Val(df[a[1]].job_type_skills)[a[2]].skills)
              /\ r.skills \in Range(Val(df[b[1]].job_type_skills)[b[2]].skills)

====
